---------------------------- MODULE Spec2Model ----------------------------
(***************************************************************************)
(* A model of the azalea protocol core:                                    *)
(*   - azalea-world/src/palette.rs : PalettedContainer and its palettes    *)
(*   - azalea-protocol/src/connect.rs : the state-typed Connection         *)
(* Collaborators whose source is not part of the tree (BitStorage, the     *)
(* frame reader/writer, the cipher) are modelled from the specification    *)
(* and are marked as such where they are defined.                          *)
(***************************************************************************)
EXTENDS Integers, Sequences, FiniteSets, TLC

VARIABLES
    container,    \* the PalettedContainer {bits_per_entry, palette, storage, container_type}
    pstatus,      \* "ok" | "panic" | "no_return": how the last container call ended
    ops,          \* number of mutating container calls made so far
    origin,       \* "new" | "read_with_type": the constructor that built the container
    written,      \* history: position number -> last value written by set/get_and_set, -1 if none
    last,         \* history: the last mutating container call, its arguments and its return value
    sets_only,    \* history: every mutating container call so far was a set
    conn,         \* the Connection {state, reader, writer}; state is the typed view in force
    read_stream,  \* bytes that have arrived at the read half's socket and are not yet read
    write_stream, \* bytes the write half has written to its socket, not yet taken by the peer
    sent,         \* history: the packets written, in call order
    received,     \* history: what the read calls returned, in order
    path,         \* history: the transitions taken, each {old, new}: the connection before and after
    prior,        \* history: the last connection call {op, arg, conn}: conn is the connection before it
    packet_buf,   \* the bytes of the buffer a value was written into and is read from
    wrote,        \* history: None, or Some of {value, bytes, rest}: the value written, its bytes, the bytes after them
    decoded,      \* None, or Some of the result {type, status, value, rest} of the last read_from
    words,        \* a bit-packed storage {bits, size, data}: data is its 64-bit words, each 64 bits
    cells         \* history: for each cell of `words`, the value last written to it, masked

pvars == <<container, pstatus, ops, origin, written, last, sets_only>>

cvars == <<conn, read_stream, write_stream, sent, received, path, prior>>

kvars == <<packet_buf, wrote, decoded>>

bvars == <<words, cells>>

vars == <<container, pstatus, ops, origin, written, last, sets_only,
          conn, read_stream, write_stream, sent, received, path, prior,
          packet_buf, wrote, decoded, words, cells>>

(***************************************************************************)
(* Bounds of the model.                                                    *)
(***************************************************************************)
MaxOps == 2          \* mutating calls per behaviour
MaxValue == 2        \* values written are 0..MaxValue
MaxWireLen == 2      \* palette payloads read from the wire hold 0..MaxWireLen entries
MaxWrites == 1       \* packets a connection writes per behaviour
MaxInbound == 6      \* bytes a server sends per behaviour
MaxFrames == 2       \* packets written back to back per behaviour of the frame codec
MaxPayload == 3      \* the largest packet payload; also the positive threshold tried
MaxDiscriminant == 8 \* discriminants read are 0..MaxDiscriminant
MaxCells == 10       \* a size of bit-packed storage between one cell and more than a word of bits
MaxCellValue == 5    \* the largest value written to a cell of bit-packed storage

Values == 0..MaxValue

(***************************************************************************)
(* Arithmetic helpers.                                                     *)
(***************************************************************************)
RECURSIVE Pow2(_)
Pow2(n) == IF n = 0 THEN 1 ELSE 2 * Pow2(n - 1)

\* a << n on usize (no overflow for the widths used here)
Shl(a, n) == a * Pow2(n)

\* bitwise or of two naturals
RECURSIVE BitOr(_, _)
BitOr(a, b) ==
    IF a = 0 THEN b
    ELSE IF b = 0 THEN a
    ELSE (IF (a % 2 = 1) \/ (b % 2 = 1) THEN 1 ELSE 0) + 2 * BitOr(a \div 2, b \div 2)

(***************************************************************************)
(* PalettedContainerType (palette.rs 274-285)                              *)
(***************************************************************************)
ContainerTypes == {"BlockStates", "Biomes"}

size_bits(container_type) ==
    IF container_type = "BlockStates" THEN 4 ELSE 2

size(container_type) == Shl(1, size_bits(container_type) * 3)

(***************************************************************************)
(* PaletteType (palette.rs 227-272)                                        *)
(***************************************************************************)
from_bits_and_type(bits_per_entry, container_type) ==
    IF container_type = "BlockStates"
    THEN IF bits_per_entry = 0 THEN "SingleValue"
         ELSE IF bits_per_entry \in 1..4 THEN "Linear"
         ELSE IF bits_per_entry \in 5..8 THEN "Hashmap"
         ELSE "Global"
    ELSE IF bits_per_entry = 0 THEN "SingleValue"
         ELSE IF bits_per_entry \in 1..3 THEN "Linear"
         ELSE "Global"

\* A palette is a record {kind, value, list}: value is used by SingleValue,
\* list by Linear and Hashmap.
SingleValue(v) == [kind |-> "SingleValue", value |-> v, list |-> <<>>]
Linear(l) == [kind |-> "Linear", value |-> 0, list |-> l]
Hashmap(l) == [kind |-> "Hashmap", value |-> 0, list |-> l]
Global == [kind |-> "Global", value |-> 0, list |-> <<>>]

into_empty_palette(palette_type) ==
    CASE palette_type = "SingleValue" -> SingleValue(0)
      [] palette_type = "Linear" -> Linear(<<>>)
      [] palette_type = "Hashmap" -> Hashmap(<<>>)
      [] OTHER -> Global

\* impl From<&Palette> for PaletteType
palette_type_of(palette) == palette.kind


(***************************************************************************)
(* The coordinates the modelled calls address: the first cell, the centre  *)
(* cell (8,8,8 in a BlockStates container, the cell of the repository's    *)
(* test) and a cell on the far edge.                                       *)
(***************************************************************************)
PositionNumbers == 1..3

Position(container_type, k) ==
    LET half == Shl(1, size_bits(container_type) - 1)
        far == Shl(1, size_bits(container_type)) - 1
    IN  CASE k = 1 -> <<0, 0, 0>>
          [] k = 2 -> <<half, half, half>>
          [] OTHER -> <<far, 0, far>>

\* (((y << size_bits) | z) << size_bits) | x
index_of(container_type, x, y, z) ==
    LET sb == size_bits(container_type)
    IN  BitOr(Shl(BitOr(Shl(y, sb), z), sb), x)

\* the cell indices the modelled calls address in a storage of n cells
Addressed(n) ==
    LET ct == CHOOSE t \in ContainerTypes : size(t) = n
    IN  {index_of(ct, Position(ct, k)[1], Position(ct, k)[2], Position(ct, k)[3]) :
            k \in PositionNumbers}

\* a finite set of naturals as an increasing sequence
RECURSIVE Sorted(_)
Sorted(S) ==
    IF S = {} THEN <<>>
    ELSE LET m == CHOOSE x \in S : \A y \in S : x <= y
         IN  <<m>> \o Sorted(S \ {m})

(***************************************************************************)
(* BitStorage (crate::BitStorage; its source is not part of the tree, so   *)
(* it is modelled from section 4.8 of the specification): a logical array  *)
(* of `size` cells of `bits` bits each.  The packing of cells into 64-bit  *)
(* words is abstracted away, and the array is kept as runs of cells: each  *)
(* addressed cell is a run of its own and the cells between two addressed  *)
(* cells form one run, Runs(size)[r] = <<first, last + 1>>.  All cells of  *)
(* a run hold the same content: cells[r].                                  *)
(***************************************************************************)
RunTable ==
    [n \in {size(t) : t \in ContainerTypes} |->
        LET cuts == Sorted({0, n} \cup Addressed(n) \cup {i + 1 : i \in Addressed(n)})
        IN  [r \in 1..(Len(cuts) - 1) |-> <<cuts[r], cuts[r + 1]>>]]

Runs(n) == RunTable[n]

RunOf(n, i) ==
    CHOOSE r \in 1..Len(Runs(n)) : Runs(n)[r][1] <= i /\ i < Runs(n)[r][2]

\* v masked to `bits` bits (values in the model stay below 2^31)
Mask(bits, v) == IF bits >= 31 THEN v ELSE v % Pow2(bits)

\* BitStorage::new(bits, size, None): zero-initialised
BitStorage_new(bits, n) ==
    [bits |-> bits, size |-> n, cells |-> [r \in 1..Len(Runs(n)) |-> 0]]

\* BitStorage::new(bits, size, Some(data)) for data that holds `fill` in every cell
BitStorage_filled(bits, n, fill) ==
    [bits |-> bits, size |-> n, cells |-> [r \in 1..Len(Runs(n)) |-> Mask(bits, fill)]]

\* get(i) for the cells i of run r
BitStorage_get_run(storage, r) ==
    IF storage.bits = 0 THEN 0 ELSE storage.cells[r]

\* get(i): bits_per_entry == 0 => all reads yield 0
BitStorage_get(storage, i) ==
    BitStorage_get_run(storage, RunOf(storage.size, i))

\* set(i, v) for every cell i of run r: overwrite with v (masked to the cell width)
BitStorage_set_run(storage, r, v) ==
    IF storage.bits = 0 THEN storage
    ELSE [storage EXCEPT !.cells[r] = Mask(storage.bits, v)]

\* set(i, v) for an addressed cell i
BitStorage_set(storage, i, v) ==
    BitStorage_set_run(storage, RunOf(storage.size, i), v)

(***************************************************************************)
(* The bit-packed layout of BitStorage (section 4.8): cells of `bits` bits *)
(* in 64-bit words, no cell across two words.  A word is its 64 bits,      *)
(* least significant first.                                                *)
(***************************************************************************)
WordBits == 64

\* the n low bits of v, least significant first
RECURSIVE to_bits(_, _)
to_bits(v, n) == IF n = 0 THEN <<>> ELSE <<v % 2>> \o to_bits(v \div 2, n - 1)

\* the number whose bits are b[i..]
RECURSIVE from_bits(_, _)
from_bits(b, i) == IF i > Len(b) THEN 0 ELSE b[i] + 2 * from_bits(b, i + 1)

cells_per_word(bits) == WordBits \div bits

\* new(bits, size, None): ceil(size / cells_per_word) words, none for 0 bits,
\* zero-initialised
PackedBitStorage_new(bits, n) ==
    [bits |-> bits, size |-> n,
     data |-> [w \in 1..(IF bits = 0 THEN 0
                         ELSE (n + cells_per_word(bits) - 1) \div cells_per_word(bits))
                    |-> [b \in 1..WordBits |-> 0]]]

\* the word of cell i (1-based) and the offset of its lowest bit
cell_word(storage, i) == (i \div cells_per_word(storage.bits)) + 1

cell_offset(storage, i) == (i % cells_per_word(storage.bits)) * storage.bits

\* get(i): extract `bits` bits
PackedBitStorage_get(storage, i) ==
    IF storage.bits = 0 THEN 0
    ELSE from_bits(SubSeq(storage.data[cell_word(storage, i)],
                          cell_offset(storage, i) + 1,
                          cell_offset(storage, i) + storage.bits), 1)

\* a variant that writes the cell at the bit offset i, as if cells were one bit wide
PackedBitStorage_set_bit_offset(storage, i, v) ==
    IF storage.bits = 0 THEN storage
    ELSE [storage EXCEPT !.data[cell_word(storage, i)] =
            [b \in 1..WordBits |->
                IF b > (i % cells_per_word(storage.bits))
                    /\ b <= (i % cells_per_word(storage.bits)) + storage.bits
                THEN to_bits(v, storage.bits)[b - (i % cells_per_word(storage.bits))]
                ELSE @[b]]]

\* set(i, v): overwrite the cell's bits with the low `bits` bits of v
PackedBitStorage_set(storage, i, v) ==
    IF storage.bits = 0 THEN storage
    ELSE [storage EXCEPT !.data[cell_word(storage, i)] =
            [b \in 1..WordBits |->
                IF b > cell_offset(storage, i) /\ b <= cell_offset(storage, i) + storage.bits
                THEN to_bits(v, storage.bits)[b - cell_offset(storage, i)]
                ELSE @[b]]]

(***************************************************************************)
(* Palette::value_for (palette.rs 198-207).  Indexing a list outside its   *)
(* bounds panics; value_for_panics says when.                              *)
(***************************************************************************)
value_for_panics(palette, id) ==
    /\ palette.kind \in {"Linear", "Hashmap"}
    /\ id >= Len(palette.list)

value_for(palette, id) ==
    CASE palette.kind = "SingleValue" -> palette.value
      [] palette.kind \in {"Linear", "Hashmap"} -> palette.list[id + 1]
      [] OTHER -> id

(***************************************************************************)
(* PalettedContainer (palette.rs 21-169)                                   *)
(***************************************************************************)
\* PalettedContainer::new
PalettedContainer_new(container_type) ==
    [bits_per_entry |-> 0,
     palette |-> SingleValue(0),
     storage |-> BitStorage_new(0, size(container_type)),
     container_type |-> container_type]

\* PalettedContainer::read_with_type for a wire image with the given
\* bits_per_entry, a palette payload of n entries 0, 1, .., n-1 (a SingleValue
\* palette reads the single value n) and data holding `fill` in every cell.
read_with_type(bits_per_entry, n, fill, container_type) ==
    LET palette_type == from_bits_and_type(bits_per_entry, container_type)
        palette == CASE palette_type = "SingleValue" -> SingleValue(n)
                     [] palette_type = "Linear" -> Linear([i \in 1..n |-> i - 1])
                     [] palette_type = "Hashmap" -> Hashmap([i \in 1..n |-> i - 1])
                     [] OTHER -> Global
    IN  [bits_per_entry |-> bits_per_entry,
         palette |-> palette,
         storage |-> BitStorage_filled(bits_per_entry, size(container_type), fill),
         container_type |-> container_type]

get_index(c, x, y, z) == index_of(c.container_type, x, y, z)

\* position of value in a list, 0-based; -1 when absent (iter().position)
position(list, value) ==
    IF \E i \in 1..Len(list) : list[i] = value
    THEN (CHOOSE i \in 1..Len(list) :
            /\ list[i] = value
            /\ \A j \in 1..(i - 1) : list[j] # value) - 1
    ELSE -1

\* The result of a call that may mutate the container: the container after
\* the call, the returned id, and how the call ended.
Result(c, id, status) == [c |-> c, id |-> id, status |-> status]

\* a variant that forgets to install the new bits_per_entry
create_or_reuse_data_stale_bits(c, bits_per_entry) ==
    LET new_palette_type == from_bits_and_type(bits_per_entry, c.container_type)
        old_palette_type == palette_type_of(c.palette)
    IN  IF new_palette_type = old_palette_type
        THEN c
        ELSE [bits_per_entry |-> c.bits_per_entry,
              palette |-> into_empty_palette(new_palette_type),
              storage |-> BitStorage_new(bits_per_entry, size(c.container_type)),
              container_type |-> c.container_type]

\* a variant whose new storage keeps the old cell width
create_or_reuse_data_old_width(c, bits_per_entry) ==
    LET new_palette_type == from_bits_and_type(bits_per_entry, c.container_type)
        old_palette_type == palette_type_of(c.palette)
    IN  IF new_palette_type = old_palette_type
        THEN c
        ELSE [bits_per_entry |-> bits_per_entry,
              palette |-> into_empty_palette(new_palette_type),
              storage |-> BitStorage_new(c.bits_per_entry, size(c.container_type)),
              container_type |-> c.container_type]

create_or_reuse_data(c, bits_per_entry) ==
    LET new_palette_type == from_bits_and_type(bits_per_entry, c.container_type)
        old_palette_type == palette_type_of(c.palette)
    IN  IF new_palette_type = old_palette_type
        THEN c
        ELSE [bits_per_entry |-> bits_per_entry,
              palette |-> into_empty_palette(new_palette_type),
              storage |-> BitStorage_new(bits_per_entry, size(c.container_type)),
              container_type |-> c.container_type]

(***************************************************************************)
(* id_for, on_resize and copy_from call one another.  `frames` is the set  *)
(* of on_resize invocations <<self, bits_per_entry, value>> live on the    *)
(* call stack: the code is deterministic, so an on_resize entered with the *)
(* arguments of one of its callers recurses without end and the call never *)
(* returns (status "no_return": the stack overflows).                      *)
(***************************************************************************)
RECURSIVE id_for(_, _, _), on_resize(_, _, _, _), copy_runs(_, _, _, _, _)

\* self.storage.set(i, id) for the cells of a run, id being what id_for returned
store_id(got, run) ==
    IF got.status # "ok" THEN got
    ELSE Result([got.c EXCEPT !.storage = BitStorage_set_run(got.c.storage, run, got.id)],
                0, "ok")

\* the body of copy_from's loop, for the cells of a run that hold `paletted`
copy_step(r, palette, paletted, run, frames) ==
    IF value_for_panics(palette, paletted)
    THEN Result(r.c, 0, "panic")
    ELSE store_id(id_for(r.c, value_for(palette, paletted), frames), run)

(***************************************************************************)
(* copy_from: `for i in 0..storage.size()`.  The cells of a run hold the   *)
(* same content, and id_for called again with a value it has just returned *)
(* an id for returns that id and changes nothing (see IdForIsStable), so   *)
(* the loop body does for every cell of a run what it does for the run's   *)
(* first cell: the loop is taken run by run, in index order.               *)
(***************************************************************************)
copy_runs(r, palette, storage, run, frames) ==
    IF r.status # "ok" \/ run > Len(storage.cells) THEN r
    ELSE copy_runs(copy_step(r, palette, BitStorage_get_run(storage, run), run, frames),
                   palette, storage, run + 1, frames)

copy_from(c, palette, storage, frames) ==
    copy_runs(Result(c, 0, "ok"), palette, storage, 1, frames)

\* on_resize after copy_from: `*self = new_data; self.id_for(value)`
install(copied, c, value, frames) ==
    IF copied.status # "ok"
    THEN Result(c, 0, copied.status)
    ELSE id_for(copied.c, value, frames)

on_resize(c, bits_per_entry, value, frames) ==
    IF <<c, bits_per_entry, value>> \in frames
    THEN Result(c, 0, "no_return")
    ELSE install(copy_from(create_or_reuse_data(c, bits_per_entry), c.palette, c.storage,
                           frames \cup {<<c, bits_per_entry, value>>}),
                 c, value, frames \cup {<<c, bits_per_entry, value>>})

\* a variant whose Linear arm returns palette.len() instead of palette.len() - 1
id_for_len(c, value, frames) ==
    CASE c.palette.kind = "SingleValue" ->
            IF c.palette.value # value
            THEN on_resize(c, 1, value, frames)
            ELSE Result(c, 0, "ok")
      [] c.palette.kind = "Linear" ->
            IF position(c.palette.list, value) >= 0
            THEN Result(c, position(c.palette.list, value), "ok")
            ELSE IF Pow2(c.bits_per_entry) > Len(c.palette.list)
            THEN Result([c EXCEPT !.palette.list = Append(@, value)],
                        Len(c.palette.list) + 1, "ok")
            ELSE on_resize(c, c.bits_per_entry + 1, value, frames)
      [] c.palette.kind = "Hashmap" ->
            IF position(c.palette.list, value) >= 0
            THEN Result(c, position(c.palette.list, value), "ok")
            ELSE on_resize(c, c.bits_per_entry + 1, value, frames)
      [] OTHER -> Result(c, value, "ok")

id_for(c, value, frames) ==
    CASE c.palette.kind = "SingleValue" ->
            IF c.palette.value # value
            THEN on_resize(c, 1, value, frames)
            ELSE Result(c, 0, "ok")
      [] c.palette.kind = "Linear" ->
            IF position(c.palette.list, value) >= 0
            THEN Result(c, position(c.palette.list, value), "ok")
            ELSE IF Pow2(c.bits_per_entry) > Len(c.palette.list)
            THEN Result([c EXCEPT !.palette.list = Append(@, value)],
                        Len(c.palette.list), "ok")
            ELSE on_resize(c, c.bits_per_entry + 1, value, frames)
      [] c.palette.kind = "Hashmap" ->
            IF position(c.palette.list, value) >= 0
            THEN Result(c, position(c.palette.list, value), "ok")
            ELSE on_resize(c, c.bits_per_entry + 1, value, frames)
      [] OTHER -> Result(c, value, "ok")

\* PalettedContainer::get
get_panics(c, x, y, z) ==
    value_for_panics(c.palette, BitStorage_get(c.storage, get_index(c, x, y, z)))

get(c, x, y, z) ==
    value_for(c.palette, BitStorage_get(c.storage, get_index(c, x, y, z)))

\* self.storage.set(index, paletted_value)
store_at(got, index) ==
    IF got.status # "ok" THEN got
    ELSE Result([got.c EXCEPT !.storage = BitStorage_set(got.c.storage, index, got.id)],
                0, "ok")

\* self.storage.get_and_set(index, paletted_value): returns the cell's previous content
swap_at(got, index) ==
    IF got.status # "ok" THEN got
    ELSE Result([got.c EXCEPT !.storage = BitStorage_set(got.c.storage, index, got.id)],
                BitStorage_get(got.c.storage, index), "ok")

\* PalettedContainer::set: the container after the call and how it ended
set(c, x, y, z, value) ==
    store_at(id_for(c, value, {}), get_index(c, x, y, z))

\* PalettedContainer::get_and_set
get_and_set(c, x, y, z, value) ==
    swap_at(id_for(c, value, {}), get_index(c, x, y, z))

(***************************************************************************)
(* Bytes, Option values and the variable-length integer codec (azalea_buf; *)
(* not part of the tree, modelled from section 4.1 of the specification).  *)
(***************************************************************************)
None == <<>>
Some(x) == <<x>>

\* bitwise exclusive or of two naturals
RECURSIVE BitXor(_, _)
BitXor(a, b) ==
    IF a = 0 THEN b
    ELSE IF b = 0 THEN a
    ELSE ((a + b) % 2) + 2 * BitXor(a \div 2, b \div 2)

\* bytes[from..] (from is 1-based)
Tail_from(bytes, from) == SubSeq(bytes, from, Len(bytes))

RECURSIVE write_varint(_)
write_varint(n) ==
    IF n < 128 THEN <<n>>
    ELSE <<(n % 128) + 128>> \o write_varint(n \div 128)

\* A varint read at the head of `bytes`: status "ok" with its value and the
\* number of bytes it takes, "incomplete" when the bytes end inside it,
\* "malformed" when five bytes carry no terminator.  The fifth byte of a u32
\* varint contributes its low bits only.
RECURSIVE read_varint_at(_, _, _, _)
read_varint_at(bytes, i, acc, mult) ==
    IF i > 5 THEN [status |-> "malformed", value |-> 0, len |-> 0]
    ELSE IF i > Len(bytes) THEN [status |-> "incomplete", value |-> 0, len |-> 0]
    ELSE IF bytes[i] < 128
    THEN [status |-> "ok",
          value |-> acc + (IF i = 5 THEN bytes[i] % 8 ELSE bytes[i]) * mult,
          len |-> i]
    ELSE read_varint_at(bytes, i + 1, acc + (bytes[i] - 128) * mult, mult * 128)

read_varint(bytes) == read_varint_at(bytes, 1, 0, 1)

(***************************************************************************)
(* The stream cipher (azalea_crypto; not part of the tree, modelled from   *)
(* section 4.4): CFB8 with a 16-byte key, the IV equal to the key.  A      *)
(* cipher is {key, reg}: reg is the shift register of the last 16          *)
(* ciphertext bytes.  The block function stands in for AES.                *)
(***************************************************************************)
KeyLen == 16

Key(b) == [i \in 1..KeyLen |-> (b * i) % 256]

\* the keystream byte for the next byte: a function of the key and the register
KeyStream(cipher) ==
    (cipher.key[1] + 3 * cipher.key[KeyLen] + 7 * cipher.reg[KeyLen] + cipher.reg[1]) % 256

\* the register after ciphertext byte c
Shift(cipher, c) == [cipher EXCEPT !.reg = Tail(@) \o <<c>>]

\* create_cipher(key): the paired encrypt and decrypt ciphers
create_cipher(key) ==
    [enc |-> [key |-> key, reg |-> key], dec |-> [key |-> key, reg |-> key]]

\* encrypt bytes[i..] in place: the cipher afterwards and the ciphertext
RECURSIVE encrypt_from(_, _, _, _)
encrypt_from(cipher, bytes, i, out) ==
    IF i > Len(bytes) THEN [cipher |-> cipher, bytes |-> out]
    ELSE \* c = p xor keystream
         LET c == BitXor(bytes[i], KeyStream(cipher))
         IN  encrypt_from(Shift(cipher, c), bytes, i + 1, Append(out, c))

\* decrypt bytes[i..] in place: the cipher afterwards and the plaintext
RECURSIVE decrypt_from(_, _, _, _)
decrypt_from(cipher, bytes, i, out) ==
    IF i > Len(bytes) THEN [cipher |-> cipher, bytes |-> out]
    ELSE decrypt_from(Shift(cipher, bytes[i]), bytes, i + 1,
                      Append(out, BitXor(bytes[i], KeyStream(cipher))))

\* the element of a one-element set: Only({F(x) : x \in {e}}) is F(e), e
\* evaluated once
Only(S) == CHOOSE x \in S : TRUE

\* an Option<cipher> applied to bytes: None leaves them as they are
encrypt(cipher, bytes) ==
    IF cipher = None THEN [cipher |-> None, bytes |-> bytes]
    ELSE Only({[cipher |-> Some(r.cipher), bytes |-> r.bytes] :
                    r \in {encrypt_from(cipher[1], bytes, 1, <<>>)}})

decrypt(cipher, bytes) ==
    IF cipher = None THEN [cipher |-> None, bytes |-> bytes]
    ELSE Only({[cipher |-> Some(r.cipher), bytes |-> r.bytes] :
                    r \in {decrypt_from(cipher[1], bytes, 1, <<>>)}})

(***************************************************************************)
(* Compression (zlib; modelled as a header byte followed by the run-length *)
(* encoding of the data: pairs <<count, byte>>).                           *)
(***************************************************************************)
ZlibHeader == 120

RECURSIVE run_length(_, _)
run_length(bytes, i) ==
    IF i > Len(bytes) THEN <<>>
    ELSE LET n == CHOOSE m \in 1..(Len(bytes) - i + 1) :
                    /\ \A j \in i..(i + m - 1) : bytes[j] = bytes[i]
                    /\ (i + m > Len(bytes) \/ bytes[i + m] # bytes[i])
         IN  <<n, bytes[i]>> \o run_length(bytes, i + n)

compress(bytes) == <<ZlibHeader>> \o run_length(bytes, 1)

RECURSIVE expand(_, _)
expand(pairs, i) ==
    IF i + 1 > Len(pairs) THEN <<>>
    ELSE [j \in 1..pairs[i] |-> pairs[i + 1]] \o expand(pairs, i + 2)

\* whether a compressed stream is valid
decompress_ok(data) ==
    /\ Len(data) >= 1
    /\ data[1] = ZlibHeader
    /\ Len(data) % 2 = 1
    /\ \A i \in 1..((Len(data) - 1) \div 2) : data[2 * i] >= 1

decompress(data) == expand(data, 2)

(***************************************************************************)
(* Packets and frames (crate::read::read_packet, crate::write::write_packet*)
(* and the packet registry are not part of the tree; modelled from         *)
(* sections 4.2, 4.3, 4.5 and 4.6).  A packet is {id, payload}.            *)
(***************************************************************************)
serialize(packet) == write_varint(packet.id) \o packet.payload

\* the frame body: with compression enabled, the uncompressed length (0 for a
\* packet below the threshold) and the data
frame_body(buf, compression_threshold) ==
    IF compression_threshold = None THEN buf
    ELSE IF Len(buf) >= compression_threshold[1]
    THEN write_varint(Len(buf)) \o compress(buf)
    ELSE write_varint(0) \o buf

\* prepend the length
frame(body) == write_varint(Len(body)) \o body

\* a variant that encrypts the body and then prepends its length in the clear
write_packet_length_in_clear(packet, compression_threshold, enc_cipher) ==
    Only({[cipher |-> e.cipher, bytes |-> frame(e.bytes)] :
            e \in {encrypt(enc_cipher, frame_body(serialize(packet), compression_threshold))}})

\* write_packet: encode, compress if eligible, prepend length, encrypt.  The
\* bytes put on the stream and the cipher afterwards.
write_packet(packet, compression_threshold, enc_cipher) ==
    encrypt(enc_cipher, frame(frame_body(serialize(packet), compression_threshold)))

\* decode: the id varint and the payload
decode(data, lenv) ==
    IF lenv.status # "ok" THEN [status |-> "error", packet |-> None]
    ELSE [status |-> "ok",
          packet |-> Some([id |-> lenv.value, payload |-> Tail_from(data, lenv.len + 1)])]

\* the data of a compressed-format body: after the uncompressed length ulen
decompressed(body, ulen) ==
    IF ulen.status # "ok" THEN [status |-> "error", packet |-> None]
    ELSE IF ulen.value = 0
    THEN decode(Tail_from(body, ulen.len + 1), read_varint(Tail_from(body, ulen.len + 1)))
    ELSE IF ~decompress_ok(Tail_from(body, ulen.len + 1))
    THEN [status |-> "error", packet |-> None]
    ELSE IF Len(decompress(Tail_from(body, ulen.len + 1))) # ulen.value
    THEN [status |-> "error", packet |-> None]
    ELSE decode(decompress(Tail_from(body, ulen.len + 1)),
                read_varint(decompress(Tail_from(body, ulen.len + 1))))

\* decompress if declared, decode
decode_body(body, compression_threshold) ==
    IF compression_threshold = None
    THEN decode(body, read_varint(body))
    ELSE decompressed(body, read_varint(body))

\* the frame at the head of the (decrypted) buffer, its length varint being
\* lenv: "pending" while it is not whole, else the decoded packet or "error",
\* and the buffer that is left
take_frame(buffer, lenv, compression_threshold) ==
    IF lenv.status = "incomplete"
    THEN [status |-> "pending", packet |-> None, buffer |-> buffer]
    ELSE IF lenv.status = "malformed"
    THEN [status |-> "error", packet |-> None, buffer |-> buffer]
    ELSE IF Len(buffer) < lenv.len + lenv.value
    THEN [status |-> "pending", packet |-> None, buffer |-> buffer]
    ELSE Only({[status |-> d.status, packet |-> d.packet,
                buffer |-> Tail_from(buffer, lenv.len + lenv.value + 1)] :
                    d \in {decode_body(SubSeq(buffer, lenv.len + 1, lenv.len + lenv.value),
                                       compression_threshold)}})

\* read_packet on what is buffered
read_buffered(reader) ==
    Only({take_frame(reader.buffer, lenv, reader.compression_threshold) :
            lenv \in {read_varint(reader.buffer)}})

\* read_packet reading `bytes` from the stream: they are decrypted as they
\* are appended to the buffer
fill_buffer(reader, bytes) ==
    Only({[reader EXCEPT !.buffer = @ \o d.bytes, !.dec_cipher = d.cipher] :
            d \in {decrypt(reader.dec_cipher, bytes)}})

\* what read_packet returns after the buffer was filled
finish_read(filled, res) ==
    [status |-> res.status, packet |-> res.packet,
     taken |-> Len(filled.buffer) - Len(res.buffer),
     reader |-> [filled EXCEPT !.buffer = res.buffer]]

\* ReadConnection::read (connect.rs 119-127) with `bytes` taken from the
\* stream: read_packet(read_stream, buffer, compression_threshold, dec_cipher)
ReadConnection_read(reader, bytes) ==
    Only({Only({finish_read(filled, res) : res \in {read_buffered(filled)}}) :
            filled \in {fill_buffer(reader, bytes)}})

\* a variant that passes no threshold to write_packet
WriteConnection_write_uncompressed(writer, packet) ==
    Only({[bytes |-> w.bytes, writer |-> [writer EXCEPT !.enc_cipher = w.cipher]] :
            w \in {write_packet(packet, None, writer.enc_cipher)}})

\* WriteConnection::write (connect.rs 134-142): the bytes written to the
\* stream and the write half afterwards
WriteConnection_write(writer, packet) ==
    Only({[bytes |-> w.bytes, writer |-> [writer EXCEPT !.enc_cipher = w.cipher]] :
            w \in {write_packet(packet, writer.compression_threshold, writer.enc_cipher)}})

(***************************************************************************)
(* Connection (connect.rs 110-314).  The type parameters R and W, the      *)
(* typed view, are the field `state`.                                      *)
(***************************************************************************)
ProtocolStates == {"Handshake", "Status", "Login", "Game"}

\* a variant that starts with compression enabled at threshold 0
Connection_new_compressed ==
    [state |-> "Handshake",
     reader |-> [buffer |-> <<>>, compression_threshold |-> Some(0), dec_cipher |-> None],
     writer |-> [compression_threshold |-> Some(0), enc_cipher |-> None]]

\* Connection::new (connect.rs 179-202)
Connection_new ==
    [state |-> "Handshake",
     reader |-> [buffer |-> <<>>, compression_threshold |-> None, dec_cipher |-> None],
     writer |-> [compression_threshold |-> None, enc_cipher |-> None]]

\* a variant that starts the new view with an empty buffer
from_fresh_buffer(connection, state) ==
    [state |-> state,
     reader |-> [buffer |-> <<>>,
                 compression_threshold |-> connection.reader.compression_threshold,
                 dec_cipher |-> connection.reader.dec_cipher],
     writer |-> [compression_threshold |-> connection.writer.compression_threshold,
                 enc_cipher |-> connection.writer.enc_cipher]]

\* Connection::from (connect.rs 293-313): the view typed for `state`
from(connection, state) ==
    [state |-> state,
     reader |-> [buffer |-> connection.reader.buffer,
                 compression_threshold |-> connection.reader.compression_threshold,
                 dec_cipher |-> connection.reader.dec_cipher],
     writer |-> [compression_threshold |-> connection.writer.compression_threshold,
                 enc_cipher |-> connection.writer.enc_cipher]]

login(connection) == from(connection, "Login")

status(connection) == from(connection, "Status")

game(connection) == from(connection, "Game")

\* a variant that leaves the write half's threshold set when disabling
set_compression_threshold_reader_off(connection, threshold) ==
    IF threshold >= 0
    THEN [connection EXCEPT !.reader.compression_threshold = Some(threshold),
                            !.writer.compression_threshold = Some(threshold)]
    ELSE [connection EXCEPT !.reader.compression_threshold = None]

\* a variant that enables compression only for a positive threshold
set_compression_threshold_positive(connection, threshold) ==
    IF threshold > 0
    THEN [connection EXCEPT !.reader.compression_threshold = Some(threshold),
                            !.writer.compression_threshold = Some(threshold)]
    ELSE [connection EXCEPT !.reader.compression_threshold = None,
                            !.writer.compression_threshold = None]

\* set_compression_threshold (connect.rs 219-228)
set_compression_threshold(connection, threshold) ==
    IF threshold >= 0
    THEN [connection EXCEPT !.reader.compression_threshold = Some(threshold),
                            !.writer.compression_threshold = Some(threshold)]
    ELSE [connection EXCEPT !.reader.compression_threshold = None,
                            !.writer.compression_threshold = None]

\* a variant that installs the cipher of the write half only
set_encryption_key_writer_only(connection, key) ==
    [connection EXCEPT !.writer.enc_cipher = Some(create_cipher(key).enc)]

\* set_encryption_key (connect.rs 231-235)
set_encryption_key(connection, key) ==
    [connection EXCEPT !.reader.dec_cipher = Some(create_cipher(key).dec),
                       !.writer.enc_cipher = Some(create_cipher(key).enc)]

\* the packet type R a view reads and the packet type W it writes: the
\* clientbound and the serverbound packets of its protocol state
\* (connect.rs 177, 215, 238: Connection<Clientbound..Packet, Serverbound..Packet>)
Reading(connection) == <<"Clientbound", connection.state>>

Writing(connection) == <<"Serverbound", connection.state>>

\* a variant whose reader keeps the packet type the connection was made with
Connection_read_first_type(connection, bytes) ==
    Only({[status |-> r.status, packet |-> r.packet, taken |-> r.taken,
           reader |-> r.reader, type |-> <<"Clientbound", "Handshake">>] :
            r \in {ReadConnection_read(connection.reader, bytes)}})

\* Connection::read (connect.rs 156-158): Result<R, ReadPacketError> of
\* self.reader.read()
Connection_read(connection, bytes) ==
    Only({[status |-> r.status, packet |-> r.packet, taken |-> r.taken,
           reader |-> r.reader, type |-> Reading(connection)] :
            r \in {ReadConnection_read(connection.reader, bytes)}})

\* Connection::write (connect.rs 161-163): self.writer.write(packet), packet: W
Connection_write(connection, packet) ==
    Only({[bytes |-> w.bytes, writer |-> w.writer, type |-> Writing(connection)] :
            w \in {WriteConnection_write(connection.writer, packet)}})

(***************************************************************************)
(* Packet fields (azalea_buf's McBufReadable / McBufWritable and the McBuf *)
(* derive are not part of the tree; the primitives are modelled from       *)
(* section 4.3, the layouts from the declarations that derive McBuf).  A   *)
(* read returns {status, value, rest}: rest is what the cursor has left.   *)
(***************************************************************************)
Ok(value, rest) == [status |-> "ok", value |-> value, rest |-> rest]

Err(rest) == [status |-> "error", value |-> None, rest |-> rest]

\* the reads that follow r, if r succeeded (`?`)
Then(r, next) == IF r.status # "ok" THEN r ELSE next

\* n bytes as they are
read_exact(bytes, n) ==
    IF Len(bytes) < n THEN Err(bytes)
    ELSE Ok(SubSeq(bytes, 1, n), Tail_from(bytes, n + 1))

\* a VarInt
read_var(bytes) ==
    Only({IF v.status # "ok" THEN Err(bytes) ELSE Ok(v.value, Tail_from(bytes, v.len + 1)) :
            v \in {read_varint(bytes)}})

\* Uuid: 16 raw bytes
UuidLen == 16

write_uuid(uuid) == uuid

read_uuid(bytes) == read_exact(bytes, UuidLen)

\* u64: 8 bytes, big-endian
RECURSIVE be_bytes(_, _)
be_bytes(n, width) ==
    IF width = 0 THEN <<>> ELSE be_bytes(n \div 256, width - 1) \o <<n % 256>>

RECURSIVE be_value(_, _)
be_value(bytes, i) ==
    IF i = 0 THEN 0 ELSE be_value(bytes, i - 1) * 256 + bytes[i]

write_u64(n) == be_bytes(n, 8)

read_u64(bytes) ==
    LET v == read_exact(bytes, 8)
    IN  Then(v, Ok(be_value(v.value, 8), v.rest))

\* Vec<u8> and String: the length in bytes as a VarInt, then the bytes
\* (the strings of the model are ASCII)
write_bytes(v) == write_varint(Len(v)) \o v

read_bytes(bytes) ==
    LET n == read_var(bytes)
    IN  Then(n, read_exact(n.rest, n.value))

\* bool: one byte
read_bool(bytes) ==
    IF Len(bytes) < 1 \/ bytes[1] \notin {0, 1} THEN Err(bytes)
    ELSE Ok(bytes[1] = 1, Tail(bytes))

\* Option<T>: a boolean, then the payload if it is true.  `payload` is
\* T::write_into of the value; `read` is T::read_from of what follows the
\* boolean.
write_option(opt, payload) == IF opt = None THEN <<0>> ELSE <<1>> \o payload

read_option(bytes, read) ==
    LET present == read_bool(bytes)
    IN  Then(present,
             IF present.value THEN Then(read, Ok(Some(read.value), read.rest))
             ELSE Ok(None, present.rest))

\* enum ChatType (clientbound_player_chat_packet.rs 17-26), by discriminant
ChatTypes ==
    <<"Chat", "SayCommand", "MsgCommandIncoming", "MsgCommandOutgoing",
      "TeamMsgCommandIncoming", "TeamMsgCommandOutgoing", "EmoteCommand">>

\* ChatType::read_from as test_chat_type fixes it
\* (clientbound_player_chat_packet.rs 152-160): 0x06 reads as EmoteCommand,
\* and 0x07, a discriminant no variant has, unwraps to ChatType::Chat
ChatType_read_from(bytes) ==
    LET id == read_var(bytes)
    IN  Then(id, IF id.value < Len(ChatTypes) THEN Ok(ChatTypes[id.value + 1], id.rest)
                 ELSE Ok(ChatTypes[1], id.rest))

\* struct ProfilePublicKeyData (serverbound_hello_packet.rs 18-23)
ProfilePublicKeyData_write_into(d) ==
    write_u64(d.expires_at) \o write_bytes(d.key) \o write_bytes(d.key_signature)

ProfilePublicKeyData_read_from(bytes) ==
    LET expires_at == read_u64(bytes)
        key == read_bytes(expires_at.rest)
        key_signature == read_bytes(key.rest)
    IN  Then(expires_at, Then(key, Then(key_signature,
            Ok([expires_at |-> expires_at.value, key |-> key.value,
                key_signature |-> key_signature.value], key_signature.rest))))

\* struct RemoteChatSessionData (serverbound_hello_packet.rs 12-16)
RemoteChatSessionData_write_into(d) ==
    write_uuid(d.session_id)
        \o write_option(d.profile_public_key,
                        ProfilePublicKeyData_write_into(d.profile_public_key[1]))

RemoteChatSessionData_read_from(bytes) ==
    LET session_id == read_uuid(bytes)
        profile_public_key ==
            read_option(session_id.rest,
                        ProfilePublicKeyData_read_from(Tail_from(session_id.rest, 2)))
    IN  Then(session_id, Then(profile_public_key,
            Ok([session_id |-> session_id.value,
                profile_public_key |-> profile_public_key.value], profile_public_key.rest)))

\* struct ServerboundHelloPacket (serverbound_hello_packet.rs 5-10)
ServerboundHelloPacket_write_into(p) ==
    write_bytes(p.name)
        \o RemoteChatSessionData_write_into(p.chat_session)
        \o write_option(p.profile_id, write_uuid(p.profile_id[1]))

\* a variant that reads profile_id before chat_session
ServerboundHelloPacket_read_from_reordered(bytes) ==
    LET name == read_bytes(bytes)
        profile_id == read_option(name.rest, read_uuid(Tail_from(name.rest, 2)))
        chat_session == RemoteChatSessionData_read_from(profile_id.rest)
    IN  Then(name, Then(profile_id, Then(chat_session,
            Ok([name |-> name.value, chat_session |-> chat_session.value,
                profile_id |-> profile_id.value], chat_session.rest))))

ServerboundHelloPacket_read_from(bytes) ==
    LET name == read_bytes(bytes)
        chat_session == RemoteChatSessionData_read_from(name.rest)
        profile_id == read_option(chat_session.rest, read_uuid(Tail_from(chat_session.rest, 2)))
    IN  Then(name, Then(chat_session, Then(profile_id,
            Ok([name |-> name.value, chat_session |-> chat_session.value,
                profile_id |-> profile_id.value], profile_id.rest))))

(***************************************************************************)
(* The container as a state machine.                                       *)
(***************************************************************************)
\* bits_per_entry values read from the wire: one or two per palette form
WireBits == {0, 1, 3, 4, 5, 8, 9}

NoCall == [op |-> "none", k |-> 0, value |-> 0, ret |-> 0]

\* the packet buffer at rest: Vec::new() (serverbound_hello_packet.rs 42)
BufNew ==
    /\ packet_buf = <<>>
    /\ wrote = None
    /\ decoded = None

\* no bit storage in use
WordsNew ==
    /\ words = PackedBitStorage_new(0, 0)
    /\ cells = <<>>

\* the connection side at rest
ConnNew ==
    /\ conn = Connection_new
    /\ read_stream = <<>>
    /\ write_stream = <<>>
    /\ sent = <<>>
    /\ received = <<>>
    /\ path = <<>>
    /\ prior = [op |-> "new", arg |-> None, conn |-> Connection_new]

InitPalette ==
    /\ ConnNew
    /\ BufNew
    /\ WordsNew
    /\ \/ \E ct \in ContainerTypes :
            /\ container = PalettedContainer_new(ct)
            /\ origin = "new"
       \/ \E ct \in ContainerTypes, bits \in WireBits, n \in 0..MaxWireLen, fill \in 0..1 :
            /\ container = read_with_type(bits, n, fill, ct)
            /\ origin = "read_with_type"
    /\ pstatus = "ok"
    /\ ops = 0
    /\ written = [k \in PositionNumbers |-> -1]
    /\ last = NoCall
    /\ sets_only = TRUE

\* a call is possible while the program has not aborted
CanCall == pstatus = "ok" /\ ops < MaxOps

\* get(x, y, z): reads only; a panic of value_for aborts the program
Get(k) ==
    LET p == Position(container.container_type, k)
    IN  /\ pstatus = "ok"
        /\ pstatus' = IF get_panics(container, p[1], p[2], p[3]) THEN "panic" ELSE "ok"
        /\ UNCHANGED <<container, ops, origin, written, last, sets_only>>
        /\ UNCHANGED cvars
        /\ UNCHANGED kvars
        /\ UNCHANGED bvars

Call(op, k, value, r) ==
    /\ pstatus' = r.status
    /\ container' = IF r.status = "ok" THEN r.c ELSE container
    /\ ops' = ops + 1
    /\ last' = [op |-> op, k |-> k, value |-> value,
                ret |-> IF r.status = "ok" THEN r.id ELSE 0]
    /\ sets_only' = (sets_only /\ op = "set")
    /\ UNCHANGED origin
    /\ UNCHANGED cvars
    /\ UNCHANGED kvars
    /\ UNCHANGED bvars

Set(k, value) ==
    /\ CanCall
    /\ \E p \in {Position(container.container_type, k)} :
       \E r \in {set(container, p[1], p[2], p[3], value)} :
            Call("set", k, value, r)
    /\ written' = [written EXCEPT ![k] = value]

GetAndSet(k, value) ==
    /\ CanCall
    /\ \E p \in {Position(container.container_type, k)} :
       \E r \in {get_and_set(container, p[1], p[2], p[3], value)} :
            Call("get_and_set", k, value, r)
    /\ written' = [written EXCEPT ![k] = value]

IdFor(value) ==
    /\ CanCall
    /\ \E r \in {id_for(container, value, {})} :
            Call("id_for", 0, value, r)
    /\ UNCHANGED written

NextPalette ==
    \/ \E k \in PositionNumbers : Get(k)
    \/ \E k \in PositionNumbers, value \in Values : Set(k, value)
    \/ \E k \in PositionNumbers, value \in Values : GetAndSet(k, value)
    \/ \E value \in Values : IdFor(value)

SpecPalette == InitPalette /\ [][NextPalette]_vars

(***************************************************************************)
(* Containers read from the wire with a palette that has no room left (a   *)
(* Linear list of 1 << bits_per_entry entries) or with the Global palette, *)
(* written with values of the block-state and biome registries that        *)
(* bits_per_entry bits cannot hold.                                        *)
(***************************************************************************)
InitWire ==
    /\ ConnNew
    /\ BufNew
    /\ WordsNew
    /\ \E ct \in ContainerTypes, bits \in WireBits, fill \in 0..1 :
        /\ from_bits_and_type(bits, ct) \in {"Linear", "Global"}
        /\ container = read_with_type(bits, Pow2(bits), fill, ct)
    /\ origin = "read_with_type"
    /\ pstatus = "ok"
    /\ ops = 0
    /\ written = [k \in PositionNumbers |-> -1]
    /\ last = NoCall
    /\ sets_only = TRUE

NextWire ==
    \/ \E k \in PositionNumbers : Get(k)
    \/ \E k \in PositionNumbers, value \in {0, Pow2(container.bits_per_entry)} : Set(k, value)
    \/ \E k \in PositionNumbers, value \in {0, Pow2(container.bits_per_entry)} :
            GetAndSet(k, value)

SpecWire == InitWire /\ [][NextWire]_vars

(***************************************************************************)
(* The connection as a state machine.  An operation of a typed view is     *)
(* enabled only while that view is the one in force: login, status, game   *)
(* take `self` by value, so the view they are called on is gone.           *)
(***************************************************************************)
\* the container side at rest
PaletteNew ==
    /\ container = PalettedContainer_new("Biomes")
    /\ origin = "new"
    /\ pstatus = "ok"
    /\ ops = 0
    /\ written = [k \in PositionNumbers |-> -1]
    /\ last = NoCall
    /\ sets_only = TRUE

Packet(id, n) == [id |-> id, payload |-> [j \in 1..n |-> 7 + (j \div 3)]]

\* packets whose serialized length is 1, MaxPayload, MaxPayload + 1
Packets == {Packet(0, 0), Packet(1, MaxPayload - 1), Packet(0, MaxPayload)}

\* the packets a connection writes
ConnPackets == {Packet(1, MaxPayload - 1)}

Thresholds == {-1, 0, MaxPayload}

Keys == {Key(1), Key(7)}

\* what a server sends in one piece: a frame that holds a packet whether or
\* not its first byte is the uncompressed-length marker
Chunks == {<<2, 0, 1>>}

RECURSIVE SumTaken(_, _)
SumTaken(results, i) ==
    IF i > Len(results) THEN 0 ELSE results[i].taken + SumTaken(results, i + 1)

\* bytes the server has sent so far
Inbound == Len(read_stream) + Len(conn.reader.buffer) + SumTaken(received, 1)

InitConn ==
    /\ PaletteNew
    /\ ConnNew
    /\ BufNew
    /\ WordsNew

\* Connection::login (connect.rs 205-207), of the Handshake view
Login ==
    /\ conn.state = "Handshake"
    /\ conn' = login(conn)
    /\ path' = Append(path, [old |-> conn, new |-> conn'])
    /\ prior' = [op |-> "login", arg |-> None, conn |-> conn]
    /\ UNCHANGED <<read_stream, write_stream, sent, received>>
    /\ UNCHANGED pvars
    /\ UNCHANGED kvars
    /\ UNCHANGED bvars

\* Connection::status (connect.rs 210-212), of the Handshake view
Status ==
    /\ conn.state = "Handshake"
    /\ conn' = status(conn)
    /\ path' = Append(path, [old |-> conn, new |-> conn'])
    /\ prior' = [op |-> "status", arg |-> None, conn |-> conn]
    /\ UNCHANGED <<read_stream, write_stream, sent, received>>
    /\ UNCHANGED pvars
    /\ UNCHANGED kvars
    /\ UNCHANGED bvars

\* a variant of game that every view offers
Game_any_view ==
    /\ conn' = game(conn)
    /\ path' = Append(path, [old |-> conn, new |-> conn'])
    /\ prior' = [op |-> "game", arg |-> None, conn |-> conn]
    /\ UNCHANGED <<read_stream, write_stream, sent, received>>
    /\ UNCHANGED pvars
    /\ UNCHANGED kvars
    /\ UNCHANGED bvars

\* Connection::game (connect.rs 238-240), of the Login view
Game ==
    /\ conn.state = "Login"
    /\ conn' = game(conn)
    /\ path' = Append(path, [old |-> conn, new |-> conn'])
    /\ prior' = [op |-> "game", arg |-> None, conn |-> conn]
    /\ UNCHANGED <<read_stream, write_stream, sent, received>>
    /\ UNCHANGED pvars
    /\ UNCHANGED kvars
    /\ UNCHANGED bvars

\* Connection::set_compression_threshold (connect.rs 219-228), of the Login view
SetCompressionThreshold(threshold) ==
    /\ conn.state = "Login"
    /\ conn' = set_compression_threshold(conn, threshold)
    /\ prior' = [op |-> "set_compression_threshold", arg |-> threshold, conn |-> conn]
    /\ UNCHANGED <<read_stream, write_stream, sent, received, path>>
    /\ UNCHANGED pvars
    /\ UNCHANGED kvars
    /\ UNCHANGED bvars

\* Connection::set_encryption_key (connect.rs 231-235), of the Login view
SetEncryptionKey(key) ==
    /\ conn.state = "Login"
    /\ conn' = set_encryption_key(conn, key)
    /\ prior' = [op |-> "set_encryption_key", arg |-> key, conn |-> conn]
    /\ UNCHANGED <<read_stream, write_stream, sent, received, path>>
    /\ UNCHANGED pvars
    /\ UNCHANGED kvars
    /\ UNCHANGED bvars

\* a variant in which the halves share one cipher state
Written_shared_cipher(packet, w, bound) ==
    /\ Len(sent) < bound
    /\ conn' = [conn EXCEPT !.writer = w.writer, !.reader.dec_cipher = w.writer.enc_cipher]
    /\ write_stream' = write_stream \o w.bytes
    /\ sent' = Append(sent, [packet |-> packet, bytes |-> w.bytes,
                             enc_cipher |-> conn.writer.enc_cipher,
                             type |-> w.type, after |-> Len(path)])
    /\ prior' = [op |-> "write", arg |-> packet, conn |-> conn]
    /\ UNCHANGED <<read_stream, received, path>>
    /\ UNCHANGED pvars
    /\ UNCHANGED kvars
    /\ UNCHANGED bvars

Written(packet, w, bound) ==
    /\ Len(sent) < bound
    /\ conn' = [conn EXCEPT !.writer = w.writer]
    /\ write_stream' = write_stream \o w.bytes
    /\ sent' = Append(sent, [packet |-> packet, bytes |-> w.bytes,
                             enc_cipher |-> conn.writer.enc_cipher,
                             type |-> w.type, after |-> Len(path)])
    /\ prior' = [op |-> "write", arg |-> packet, conn |-> conn]
    /\ UNCHANGED <<read_stream, received, path>>
    /\ UNCHANGED pvars
    /\ UNCHANGED kvars
    /\ UNCHANGED bvars

\* Connection::write (connect.rs 161-163), of every view
Write(packet) ==
    \E w \in {Connection_write(conn, packet)} : Written(packet, w, MaxWrites)

Returned(n, r) ==
    /\ r.status # "pending"
    /\ conn' = [conn EXCEPT !.reader = r.reader]
    /\ read_stream' = Tail_from(read_stream, n + 1)
    /\ received' = Append(received, [status |-> r.status, packet |-> r.packet,
                                     taken |-> r.taken,
                                     type |-> r.type, after |-> Len(path)])
    /\ prior' = [op |-> "read", arg |-> n, conn |-> conn]
    /\ UNCHANGED <<write_stream, sent, path>>
    /\ UNCHANGED pvars
    /\ UNCHANGED kvars
    /\ UNCHANGED bvars

\* Connection::read (connect.rs 156-158), of every view: a call that returns,
\* having taken n bytes from the stream (none when a whole frame was
\* buffered already)
Read(n) ==
    /\ (n = 0) = (read_buffered(conn.reader).status # "pending")
    /\ \E r \in {Connection_read(conn, SubSeq(read_stream, 1, n))} :
            Returned(n, r)

\* the server sends bytes
ServerSend(chunk) ==
    /\ Inbound + Len(chunk) <= MaxInbound
    /\ read_stream' = read_stream \o chunk
    /\ UNCHANGED <<conn, write_stream, sent, received, path, prior>>
    /\ UNCHANGED pvars
    /\ UNCHANGED kvars
    /\ UNCHANGED bvars

NextConn ==
    \/ Login
    \/ Status
    \/ Game
    \/ \E threshold \in Thresholds : SetCompressionThreshold(threshold)
    \/ \E key \in Keys : SetEncryptionKey(key)
    \/ \E packet \in ConnPackets : Write(packet)
    \/ \E n \in 0..Len(read_stream) : Read(n)
    \/ \E chunk \in Chunks : ServerSend(chunk)

SpecConn == InitConn /\ [][NextConn]_vars

(***************************************************************************)
(* The frame codec as a state machine: a write half and a read half        *)
(* configured alike, the bytes written carried to the read half.           *)
(***************************************************************************)
\* a connection configured in Login for a threshold and an optional key
Keyed(connection, key) ==
    IF key = None THEN connection ELSE set_encryption_key(connection, key[1])

Configured(threshold, key) ==
    game(Keyed(set_compression_threshold(login(Connection_new), threshold), key))

InitFrame ==
    /\ PaletteNew
    /\ BufNew
    /\ WordsNew
    /\ \E threshold \in Thresholds, key \in {None, Some(Key(1))} :
         \E c \in {Configured(threshold, key)} :
            /\ conn = c
            /\ prior = [op |-> "game", arg |-> None, conn |-> c]
    /\ read_stream = <<>>
    /\ write_stream = <<>>
    /\ sent = <<>>
    /\ received = <<>>
    /\ path = <<>>

WriteFrame(packet) ==
    \E w \in {Connection_write(conn, packet)} : Written(packet, w, MaxFrames)

\* n bytes written reach the read half's socket
Loopback(n) ==
    /\ read_stream' = read_stream \o SubSeq(write_stream, 1, n)
    /\ write_stream' = Tail_from(write_stream, n + 1)
    /\ UNCHANGED <<conn, sent, received, path, prior>>
    /\ UNCHANGED pvars
    /\ UNCHANGED kvars
    /\ UNCHANGED bvars

NextFrame ==
    \/ \E packet \in Packets : WriteFrame(packet)
    \/ \E n \in 1..Len(write_stream) : Loopback(n)
    \/ \E n \in 0..Len(read_stream) : Read(n)

SpecFrame == InitFrame /\ [][NextFrame]_vars

(***************************************************************************)
(* Chunked arrival: the frames written reach the read half in chunks of    *)
(* any size, and a read that is still waiting for the rest of a frame may  *)
(* be dropped by its caller.  What such a read took from the socket is     *)
(* already in self.buffer (connect.rs 27, 119-127), decrypted.             *)
(***************************************************************************)
\* a variant whose dropped read loses the bytes it had taken
ReadCancelled_loses_bytes(n) ==
    /\ read_buffered(conn.reader).status = "pending"
    /\ \E filled \in {fill_buffer(conn.reader, SubSeq(read_stream, 1, n))} :
        /\ read_buffered(filled).status = "pending"
        /\ conn' = conn
    /\ read_stream' = Tail_from(read_stream, n + 1)
    /\ prior' = [op |-> "read_cancelled", arg |-> n, conn |-> conn]
    /\ UNCHANGED <<write_stream, sent, received, path>>
    /\ UNCHANGED pvars
    /\ UNCHANGED kvars
    /\ UNCHANGED bvars

\* a read that took n bytes from the socket, found no whole frame buffered
\* and was dropped while waiting for more
ReadCancelled(n) ==
    /\ read_buffered(conn.reader).status = "pending"
    /\ \E filled \in {fill_buffer(conn.reader, SubSeq(read_stream, 1, n))} :
        /\ read_buffered(filled).status = "pending"
        /\ conn' = [conn EXCEPT !.reader = filled]
    /\ read_stream' = Tail_from(read_stream, n + 1)
    /\ prior' = [op |-> "read_cancelled", arg |-> n, conn |-> conn]
    /\ UNCHANGED <<write_stream, sent, received, path>>
    /\ UNCHANGED pvars
    /\ UNCHANGED kvars
    /\ UNCHANGED bvars

\* The bytes written reach the socket together; a chunk is what one read
\* finds there and takes, n bytes of it.
NextChunks ==
    \/ \E packet \in {Packet(0, 0), Packet(0, MaxPayload)} : WriteFrame(packet)
    \/ \E n \in {Len(write_stream)} \ {0} : Loopback(n)
    \/ \E n \in 0..Len(read_stream) : Read(n)
    \/ \E n \in 1..Len(read_stream) : ReadCancelled(n)

SpecChunks == InitFrame /\ [][NextChunks]_vars

(***************************************************************************)
(* Reading and writing packet fields, as the tests of the packets do:      *)
(* a value is written into a buffer and read back from a cursor over it,   *)
(* or bytes are given and read.                                            *)
(***************************************************************************)
\* Uuid::from_u128(n) for a small n
Uuid(n) == [i \in 1..UuidLen |-> IF i = UuidLen THEN n ELSE 0]

\* the packets written: names "", "t" and "test", the key and the profile id
\* absent or present
HelloPackets ==
    [name : {<<>>, <<116>>, <<116, 101, 115, 116>>},
     chat_session :
        [session_id : {Uuid(0), Uuid(255)},
         profile_public_key :
            {None,
             Some([expires_at |-> 0, key |-> <<>>, key_signature |-> <<>>]),
             Some([expires_at |-> 258, key |-> <<1, 2>>, key_signature |-> <<3>>])}],
     profile_id : {None, Some(Uuid(0)), Some(Uuid(1))}]

InitCodec ==
    /\ PaletteNew
    /\ ConnNew
    /\ BufNew
    /\ WordsNew

\* packet.write_into(&mut buf) into an empty buffer, the bytes `rest` following
WriteHello(p, rest) ==
    /\ \E bytes \in {ServerboundHelloPacket_write_into(p)} :
        /\ packet_buf' = bytes \o rest
        /\ wrote' = Some([value |-> p, bytes |-> bytes, rest |-> rest])
    /\ decoded' = None
    /\ UNCHANGED pvars
    /\ UNCHANGED cvars
    /\ UNCHANGED bvars

Decoded(type, r) ==
    decoded' = Some([type |-> type, status |-> r.status, value |-> r.value, rest |-> r.rest])

\* ServerboundHelloPacket::read_from(&mut Cursor::new(&buf))
ReadHello ==
    /\ wrote # None
    /\ decoded = None
    /\ \E r \in {ServerboundHelloPacket_read_from(packet_buf)} :
            Decoded("ServerboundHelloPacket", r)
    /\ UNCHANGED <<packet_buf, wrote>>
    /\ UNCHANGED pvars
    /\ UNCHANGED cvars
    /\ UNCHANGED bvars

\* ChatType::read_from(&mut Cursor::new(&[d]))
ReadChatType(d) ==
    /\ packet_buf' = write_varint(d)
    /\ wrote' = None
    /\ \E r \in {ChatType_read_from(write_varint(d))} : Decoded("ChatType", r)
    /\ UNCHANGED pvars
    /\ UNCHANGED cvars
    /\ UNCHANGED bvars

NextCodec ==
    \/ \E p \in HelloPackets, rest \in {<<>>, <<1>>} : WriteHello(p, rest)
    \/ ReadHello
    \/ \E d \in 0..MaxDiscriminant : ReadChatType(d)

SpecCodec == InitCodec /\ [][NextCodec]_vars

(***************************************************************************)
(* The bit-packed storage as a state machine: a storage is made, then      *)
(* cells are set.                                                          *)
(***************************************************************************)
InitWords ==
    /\ PaletteNew
    /\ ConnNew
    /\ BufNew
    \* widths with 64, 21, 9, 1 and 1 cells in a word
    /\ \E bits \in {1, 3, 7, 33, WordBits}, n \in {1, MaxCells, WordBits + 1} :
        /\ words = PackedBitStorage_new(bits, n)
        /\ cells = [i \in 1..n |-> 0]

\* BitStorage::set(i, v)
SetCell(i, v) ==
    /\ words' = PackedBitStorage_set(words, i, v)
    /\ cells' = [cells EXCEPT ![i + 1] = Mask(words.bits, v)]
    /\ UNCHANGED pvars
    /\ UNCHANGED cvars
    /\ UNCHANGED kvars

\* the cells written: the first and the last of the storage, the last of the
\* first word and the first of the second; some of the values do not fit in
\* the narrow widths
NextWords ==
    \E i \in {0, cells_per_word(words.bits) - 1, cells_per_word(words.bits), words.size - 1}
                \cap (0..(words.size - 1)),
       v \in {0, 1, MaxCellValue} :
        SetCell(i, v)

SpecWords == InitWords /\ [][NextWords]_vars

(***************************************************************************)
(* id_for is stable: asked again for a value it has just given an id, it   *)
(* gives the same id and leaves the container as it is.  copy_from's loop  *)
(* over runs rests on this.                                                *)
(***************************************************************************)
IdForIsStable ==
    pstatus = "ok" =>
        \A value \in Values :
            \E r \in {id_for(container, value, {})} :
                r.status = "ok" => id_for(r.c, value, {}) = r

(***************************************************************************)
(* Properties of the paletted container.                                   *)
(***************************************************************************)
\* what get(x, y, z) returns at position k, -1 if value_for panics
GetAt(k) ==
    LET p == Position(container.container_type, k)
    IN  IF get_panics(container, p[1], p[2], p[3]) THEN -1
        ELSE get(container, p[1], p[2], p[3])

\* what get returns in the cells of run r, -1 if value_for panics
GetRun(r) ==
    IF value_for_panics(container.palette, BitStorage_get_run(container.storage, r)) THEN -1
    ELSE value_for(container.palette, BitStorage_get_run(container.storage, r))

\* the runs of cells no call has addressed
OtherRuns ==
    {r \in 1..Len(Runs(container.storage.size)) :
        \A k \in PositionNumbers :
            \E p \in {Position(container.container_type, k)} :
                RunOf(container.storage.size, get_index(container, p[1], p[2], p[3])) # r}

\* the value last written at position k, 0 if none was
Expected(k) == IF written[k] = -1 THEN 0 ELSE written[k]

\* C1: after any sequence of set calls on a fresh container every call has
\* returned, get returns the last value written at every written position and
\* 0 at every position never written.
C1_SetsReadBack ==
    (origin = "new" /\ sets_only) =>
        /\ pstatus = "ok"
        /\ \A k \in PositionNumbers : GetAt(k) = Expected(k)
        /\ \A r \in OtherRuns : GetRun(r) = 0

\* C2: in every reachable state the variant of the palette is the one
\* from_bits_and_type gives for the container's bits_per_entry and type.
C2_PaletteTypeInvariant ==
    palette_type_of(container.palette)
        = from_bits_and_type(container.bits_per_entry, container.container_type)

\* C2 witness: a call has replaced the SingleValue palette of a fresh container
C2_Witness ==
    /\ origin = "new"
    /\ pstatus = "ok"
    /\ container.bits_per_entry = 1
    /\ container.palette.kind = "Linear"

\* C3: a fresh container has bits_per_entry 0, a SingleValue palette and reads
\* 0 everywhere; after one set(x, y, z, v) with v # 0 on it, get(x, y, z) is v,
\* the palette is Linear and every other cell still reads 0.
C3_PalettePromotion ==
    origin = "new" =>
        /\ ops = 0 =>
            /\ container.bits_per_entry = 0
            /\ container.palette.kind = "SingleValue"
            /\ \A k \in PositionNumbers : GetAt(k) = 0
            /\ \A r \in OtherRuns : GetRun(r) = 0
        /\ (ops = 1 /\ last.op = "set" /\ last.value # 0) =>
            /\ pstatus = "ok"
            /\ GetAt(last.k) = last.value
            /\ container.palette.kind = "Linear"
            /\ \A k \in PositionNumbers \ {last.k} : GetAt(k) = 0
            /\ \A r \in OtherRuns : GetRun(r) = 0

\* C3 witness: the repository's test, set(8, 8, 8, 1) on a fresh BlockStates container
C3_Witness ==
    /\ origin = "new"
    /\ container.container_type = "BlockStates"
    /\ ops = 1
    /\ last = [op |-> "set", k |-> 2, value |-> 1, ret |-> 0]
    /\ Position("BlockStates", 2) = <<8, 8, 8>>
    /\ GetAt(2) = 1

(***************************************************************************)
(* Properties of the connection.                                           *)
(***************************************************************************)
Allowed == {<<"Handshake", "Login">>, <<"Handshake", "Status">>, <<"Login", "Game">>}

NoThreshold(connection) ==
    /\ connection.reader.compression_threshold = None
    /\ connection.writer.compression_threshold = None

NoCipher(connection) ==
    /\ connection.reader.dec_cipher = None
    /\ connection.writer.enc_cipher = None

C5_TransitionsPreserve ==
    /\ \A i \in 1..Len(path) :
        /\ path[i].new.reader.buffer = path[i].old.reader.buffer
        /\ path[i].new.reader.compression_threshold = path[i].old.reader.compression_threshold
        /\ path[i].new.writer.compression_threshold = path[i].old.writer.compression_threshold
        /\ path[i].new.reader.dec_cipher = path[i].old.reader.dec_cipher
        /\ path[i].new.writer.enc_cipher = path[i].old.writer.enc_cipher
        /\ read_buffered(path[i].new.reader) = read_buffered(path[i].old.reader)
    /\ (path # <<>> /\ prior.op = "read" /\ prior.conn = path[Len(path)].new /\ prior.arg = 0) =>
        \E was \in {read_buffered(path[Len(path)].old.reader)} :
            /\ received[Len(received)].status = was.status
            /\ received[Len(received)].packet = was.packet
            /\ conn.reader.buffer = was.buffer

\* C5 witness: Game entered with bytes buffered, a threshold and a key set in
\* Login, and the first read in Game has returned the buffered packet
C5_Witness ==
    /\ Len(path) = 2
    /\ path[2].new.state = "Game"
    /\ path[2].old.reader.buffer # <<>>
    /\ path[2].old.reader.compression_threshold # None
    /\ path[2].old.reader.dec_cipher # None
    /\ path[2].old.writer.enc_cipher # None
    /\ prior.op = "read"
    /\ prior.arg = 0
    /\ prior.conn = path[2].new
    /\ received[Len(received)].status = "ok"
    /\ conn.reader.compression_threshold = path[2].old.reader.compression_threshold
    /\ conn.writer.enc_cipher = path[2].old.writer.enc_cipher

\* the frame the i-th write put on the stream, before encryption
PlainFrame(i) == decrypt(sent[i].enc_cipher, sent[i].bytes).bytes

\* the body of a frame, <<-1>> if the length prefix is not the body's length
BodyOf(frm, lenv) ==
    IF lenv.status = "ok" /\ Len(frm) = lenv.len + lenv.value
    THEN Tail_from(frm, lenv.len + 1) ELSE <<-1>>

\* C6: in each of the four modes the read half has returned, without error and
\* in order, exactly the packets written so far as they have reached it, and
\* all of them once every byte written has been read.
C6_FrameRoundTrip ==
    /\ Len(received) <= Len(sent)
    /\ \A i \in 1..Len(received) :
        /\ received[i].status = "ok"
        /\ received[i].packet = Some(sent[i].packet)
    /\ (write_stream = <<>> /\ read_stream = <<>> /\ conn.reader.buffer = <<>>) =>
        Len(received) = Len(sent)

\* C6 witness: compressed and encrypted, two frames written back to back, the
\* first compressed and the second not, both read back
C6_Witness ==
    /\ conn.writer.compression_threshold = Some(MaxPayload)
    /\ conn.writer.enc_cipher # None
    /\ Len(sent) = 2
    /\ sent[2].enc_cipher # sent[1].enc_cipher
    /\ sent[1].packet = Packet(0, MaxPayload)
    /\ sent[2].packet = Packet(0, 0)
    /\ Len(received) = 2

C8_SetCompressionThreshold ==
    prior.op = "set_compression_threshold" =>
        /\ prior.conn.state = "Login"
        /\ prior.arg < 0 => NoThreshold(conn)
        /\ prior.arg >= 0 =>
            /\ conn.reader.compression_threshold = Some(prior.arg)
            /\ conn.writer.compression_threshold = Some(prior.arg)
        /\ conn.state = prior.conn.state
        /\ conn.reader.buffer = prior.conn.reader.buffer
        /\ conn.reader.dec_cipher = prior.conn.reader.dec_cipher
        /\ conn.writer.enc_cipher = prior.conn.writer.enc_cipher

\* C8 witness: threshold 0 set over an earlier positive threshold, with bytes
\* buffered and a key installed
C8_Witness ==
    /\ prior.op = "set_compression_threshold"
    /\ prior.arg = 0
    /\ prior.conn.reader.compression_threshold = Some(MaxPayload)
    /\ conn.reader.compression_threshold = Some(0)
    /\ conn.reader.buffer # <<>>
    /\ conn.writer.enc_cipher # None

\* C9: once a cipher is installed no operation replaces or resets it: the
\* decrypt cipher changes only as a read advances it, the encrypt cipher only
\* as a write advances it, and neither changes its key.
C9_KeyInstalledOnce ==
    /\ prior.conn.reader.dec_cipher # None =>
        /\ conn.reader.dec_cipher # None
        /\ conn.reader.dec_cipher[1].key = prior.conn.reader.dec_cipher[1].key
        /\ prior.op # "read" => conn.reader.dec_cipher = prior.conn.reader.dec_cipher
    /\ prior.conn.writer.enc_cipher # None =>
        /\ conn.writer.enc_cipher # None
        /\ conn.writer.enc_cipher[1].key = prior.conn.writer.enc_cipher[1].key
        /\ prior.op # "write" => conn.writer.enc_cipher = prior.conn.writer.enc_cipher

\* C10: a connection just constructed is in Handshake with an empty buffer, no
\* threshold and no cipher; a connection in Handshake or Status has no
\* threshold and no cipher; an operation on a connection in Game changes
\* neither its thresholds nor whether it has ciphers.
C10_SettingsByState ==
    /\ prior.op = "new" =>
        /\ conn.state = "Handshake"
        /\ conn.reader.buffer = <<>>
        /\ NoThreshold(conn)
        /\ NoCipher(conn)
    /\ conn.state \in {"Handshake", "Status"} => NoThreshold(conn) /\ NoCipher(conn)
    /\ prior.conn.state = "Game" =>
        /\ conn.state = "Game"
        /\ conn.reader.compression_threshold = prior.conn.reader.compression_threshold
        /\ conn.writer.compression_threshold = prior.conn.writer.compression_threshold
        /\ (conn.reader.dec_cipher = None) = (prior.conn.reader.dec_cipher = None)
        /\ (conn.writer.enc_cipher = None) = (prior.conn.writer.enc_cipher = None)

\* C10 witness: a write in Game on a connection with a threshold and a key
\* has advanced the encrypt cipher
C10_Witness ==
    /\ prior.conn.state = "Game"
    /\ prior.op = "write"
    /\ conn.writer.compression_threshold # None
    /\ conn.writer.enc_cipher # None
    /\ conn.writer.enc_cipher # prior.conn.writer.enc_cipher

\* the protocol state after the first k transitions
StateAfter(k) == IF k = 0 THEN "Handshake" ELSE path[k].new.state

\* C11: every read has returned a result of the clientbound packet type of
\* the protocol state the connection was in at the call, and every write has
\* taken a packet of that state's serverbound type: after login() the Login
\* types, after game() the Game types, also when the frame was buffered
\* before the transition.
C11_PacketTypeOfState ==
    /\ \A i \in 1..Len(received) :
        received[i].type = <<"Clientbound", StateAfter(received[i].after)>>
    /\ \A i \in 1..Len(sent) :
        sent[i].type = <<"Serverbound", StateAfter(sent[i].after)>>

\* C11 witness: a frame buffered in Login has been returned by a read in Game
C11_Witness ==
    /\ Len(path) = 2
    /\ path[2].new.state = "Game"
    /\ path[2].old.reader.buffer # <<>>
    /\ prior.op = "read"
    /\ prior.arg = 0
    /\ prior.conn.reader.buffer = path[2].old.reader.buffer
    /\ received[Len(received)].status = "ok"
    /\ received[Len(received)].type = <<"Clientbound", "Game">>
    /\ \E i \in 1..Len(received) : received[i].type = <<"Clientbound", "Login">>

\* C12: every get_and_set(x, y, z, value) call that returns, on a container
\* built by new and written since, returns what get(x, y, z) returned
\* immediately before the call, in every palette form and also when the call
\* resizes the container.
C12_GetAndSetReturnsPrevious ==
    [][(ops' = ops + 1 /\ last'.op = "get_and_set" /\ pstatus' = "ok"
            /\ origin = "new" /\ GetAt(last'.k) # -1)
            => last'.ret = GetAt(last'.k)]_vars

(***************************************************************************)
(* Properties of the packet fields.                                        *)
(***************************************************************************)
\* C13: a ChatType read from a discriminant in 0..6 is the variant with that
\* discriminant (6 is EmoteCommand), and a read from any other discriminant
\* (7) fails.
C13_ChatTypeDecode ==
    (decoded # None /\ decoded[1].type = "ChatType") =>
        \E d \in {read_varint(packet_buf).value} :
            /\ d \in 0..6 =>
                /\ decoded[1].status = "ok"
                /\ decoded[1].value = ChatTypes[d + 1]
                /\ d = 6 => decoded[1].value = "EmoteCommand"
            /\ d \notin 0..6 => decoded[1].status = "error"

\* C14: a ServerboundHelloPacket read from the bytes write_into produced is
\* the packet written, and the read leaves in the cursor exactly the bytes
\* that followed them.
C14_HelloRoundTrip ==
    (decoded # None /\ decoded[1].type = "ServerboundHelloPacket") =>
        /\ decoded[1].status = "ok"
        /\ decoded[1].value = wrote[1].value
        /\ decoded[1].rest = wrote[1].rest
        /\ packet_buf = wrote[1].bytes \o decoded[1].rest

\* C14 witness: a packet named "test" with the public key present and
\* profile_id absent has been read back from a buffer that holds more bytes
C14_Witness ==
    /\ decoded # None
    /\ decoded[1].type = "ServerboundHelloPacket"
    /\ decoded[1].value.name = <<116, 101, 115, 116>>
    /\ decoded[1].value.chat_session.profile_public_key # None
    /\ decoded[1].value.chat_session.profile_public_key[1].expires_at = 258
    /\ decoded[1].value.profile_id = None
    /\ wrote[1].rest # <<>>

(***************************************************************************)
(* Properties of the bit-packed storage.                                   *)
(***************************************************************************)
\* C15: after any sequence of set(i, v) calls with i < size, get(i) is the
\* last v written at i masked to the cell width, for every cell i; a cell
\* never written reads 0 as at construction; and the storage still has
\* ceil(size / floor(64 / bits)) words of 64 bits.
C15_BitStorageRoundTrip ==
    /\ \A i \in 0..(words.size - 1) : PackedBitStorage_get(words, i) = cells[i + 1]
    /\ words.bits > 0 =>
        /\ Len(words.data) * (WordBits \div words.bits) >= words.size
        /\ (Len(words.data) - 1) * (WordBits \div words.bits) < words.size
    /\ \A w \in 1..Len(words.data) : Len(words.data[w]) = WordBits

\* C15 witness: in a storage of 7-bit cells, the last cell of the first word
\* and the first cell of the second hold different values and the cell
\* before them was never written
C15_Witness ==
    /\ words.bits = 7
    /\ words.size = MaxCells
    /\ Len(words.data) = 2
    /\ PackedBitStorage_get(words, 8) = MaxCellValue
    /\ PackedBitStorage_get(words, 9) = 1
    /\ PackedBitStorage_get(words, 0) = 0

(***************************************************************************)
(* Properties of resizing.                                                 *)
(***************************************************************************)
\* the call just made found `value` absent from a full Linear palette
FullLinearMiss ==
    /\ ops' = ops + 1
    /\ container.palette.kind = "Linear"
    /\ position(container.palette.list, last'.value) < 0
    /\ Len(container.palette.list) = Pow2(container.bits_per_entry)

\* the call just made found a SingleValue palette holding another value
SingleValueMiss ==
    /\ ops' = ops + 1
    /\ container.palette.kind = "SingleValue"
    /\ container.palette.value # last'.value

\* C16: a call on a container made by new() that finds its value absent from
\* a full Linear palette returns, and leaves a container whose bits_per_entry
\* and storage cell width are both the old bits_per_entry + 1; from a
\* SingleValue palette both become 1.
C16_ResizeGrowsBits ==
    [][/\ (FullLinearMiss /\ origin = "new") =>
            /\ pstatus' = "ok"
            /\ container'.bits_per_entry = container.bits_per_entry + 1
            /\ container'.storage.bits = container.bits_per_entry + 1
       /\ (SingleValueMiss /\ origin = "new") =>
            /\ pstatus' = "ok"
            /\ container'.bits_per_entry = 1
            /\ container'.storage.bits = 1]_vars

\* C17: every id_for, set and get_and_set call on a container made by new()
\* returns (it may not recurse without end), and a call that changes
\* bits_per_entry increases it.
C17_CallsTerminate ==
    [][(ops' = ops + 1 /\ origin = "new") =>
            /\ pstatus' # "no_return"
            /\ container'.bits_per_entry >= container.bits_per_entry]_vars

\* C18: in every reachable state of a container, made by new() or by
\* read_with_type and after any calls and resizes, the storage has as many
\* cells as the container type has positions (4096 or 64) and its cell width
\* is the container's bits_per_entry.
C18_StorageMatchesContainer ==
    /\ container.storage.size = size(container.container_type)
    /\ container.storage.bits = container.bits_per_entry

\* C18 witness: a container read at 8 bits per entry has been resized to the
\* Global palette at 9 bits by a call that returned
C18_Witness ==
    /\ origin = "read_with_type"
    /\ ops > 0
    /\ pstatus = "ok"
    /\ container.palette.kind = "Global"
    /\ container.bits_per_entry = 9
    /\ container.storage.bits = 9
    /\ container.storage.size = 4096

\* the call just made found `value` absent from a Hashmap palette with room
\* left, whose list has an entry for every id the storage holds
HashmapMissWithRoom ==
    /\ ops' = ops + 1
    /\ container.palette.kind = "Hashmap"
    /\ \A k \in PositionNumbers : GetAt(k) # -1
    /\ position(container.palette.list, last'.value) < 0
    /\ Len(container.palette.list) < Pow2(container.bits_per_entry)

\* C19: a call that finds its value absent from a Hashmap palette whose list
\* is shorter than 1 << bits_per_entry returns, appends the value to the list
\* and does not resize; id_for returns the value's new index.
C19_HashmapAppends ==
    [][HashmapMissWithRoom =>
            /\ pstatus' = "ok"
            /\ container'.bits_per_entry = container.bits_per_entry
            /\ container'.palette = Hashmap(Append(container.palette.list, last'.value))
            /\ last'.op = "id_for" => last'.ret = Len(container.palette.list)]_vars

(***************************************************************************)
(* Properties of the order of the layers of a frame.                       *)
(***************************************************************************)
\* all the bytes the writes have put on the stream, from the i-th write on
RECURSIVE WireFrom(_)
WireFrom(i) == IF i > Len(sent) THEN <<>> ELSE sent[i].bytes \o WireFrom(i + 1)

\* the bytes of the wire the read half has taken from its socket
Consumed == SubSeq(WireFrom(1), 1, Len(WireFrom(1)) - Len(write_stream) - Len(read_stream))

\* the cipher the halves started with
FirstCipher == IF sent = <<>> THEN conn.writer.enc_cipher ELSE sent[1].enc_cipher

\* C20: what each write put on the stream is, byte for byte, the encryption
\* under the write cipher of one frame: decrypted as a whole it is a length
\* prefix, counting the rest, followed by a body that (decompressed if the
\* compressed format is on) decodes to the packet written, and the cipher
\* has advanced over every byte of it, length prefix included.  The read half
\* has passed every byte taken from the socket through its cipher before
\* anything else: its buffer is the decrypted wire less the frames returned.
C20_EncryptionOutermost ==
    /\ \A i \in 1..Len(sent) :
        \E d \in {decrypt(sent[i].enc_cipher, sent[i].bytes)} :
        \E lenv \in {read_varint(d.bytes)} :
            /\ lenv.status = "ok"
            /\ lenv.len + lenv.value = Len(sent[i].bytes)
            /\ \E r \in {decode_body(Tail_from(d.bytes, lenv.len + 1),
                                     conn.writer.compression_threshold)} :
                    /\ r.status = "ok"
                    /\ r.packet = Some(sent[i].packet)
            /\ d.cipher = IF i < Len(sent) THEN sent[i + 1].enc_cipher
                          ELSE conn.writer.enc_cipher
    /\ \E d \in {decrypt(FirstCipher, Consumed)} :
            /\ conn.reader.dec_cipher = d.cipher
            /\ conn.reader.buffer = Tail_from(d.bytes, SumTaken(received, 1) + 1)

\* C20 witness: with a cipher installed and compression on, a compressed
\* frame whose first wire byte differs from its length prefix was written,
\* then a second frame, and the first has been read back with bytes of the
\* second left decrypted in the buffer
C20_Witness ==
    /\ conn.writer.enc_cipher # None
    /\ conn.writer.compression_threshold = Some(MaxPayload)
    /\ Len(sent) = 2
    /\ sent[1].packet = Packet(0, MaxPayload)
    /\ sent[1].bytes[1] # decrypt(sent[1].enc_cipher, sent[1].bytes).bytes[1]
    /\ Len(received) = 1
    /\ received[1].packet = Some(sent[1].packet)
    /\ conn.reader.buffer # <<>>

(***************************************************************************)
(* Properties of reading a stream that arrives in chunks.                  *)
(***************************************************************************)
\* the frames written from the i-th on, before encryption
RECURSIVE PlainFrom(_)
PlainFrom(i) == IF i > Len(sent) THEN <<>> ELSE PlainFrame(i) \o PlainFrom(i + 1)

\* C21: however the bytes written arrive and whichever waiting reads were
\* dropped, the i-th read that returned gave the i-th packet written, having
\* consumed from the buffer exactly that packet's frame, and what is
\* buffered, followed by the decryption under the read cipher of the bytes
\* still to be taken, is exactly the frames not yet returned: no byte was
\* lost, decrypted twice or left undecrypted.
C21_ChunkedReads ==
    /\ Len(received) <= Len(sent)
    /\ \A i \in 1..Len(received) :
        /\ received[i].status = "ok"
        /\ received[i].packet = Some(sent[i].packet)
        /\ received[i].taken = Len(sent[i].bytes)
    /\ conn.reader.buffer
            \o decrypt(conn.reader.dec_cipher, read_stream \o write_stream).bytes
        = PlainFrom(Len(received) + 1)

\* C21 witness: with a cipher installed, a dropped read had left part of the
\* first frame in the buffer; the read that followed returned the first
\* packet and left bytes of the second frame buffered
C21_Witness ==
    /\ conn.writer.enc_cipher # None
    /\ Len(sent) = 2
    /\ Len(received) = 1
    /\ prior.op = "read"
    /\ prior.conn.reader.buffer # <<>>
    /\ received[1].packet = Some(sent[1].packet)
    /\ conn.reader.buffer # <<>>

(***************************************************************************)
(* Properties of the ids held in storage.                                  *)
(***************************************************************************)
\* every id the storage holds is an id of the palette, whose list has no
\* value twice and no more entries than bits_per_entry can address
StoredIdsValid ==
    container.palette.kind \in {"Linear", "Hashmap"} =>
        /\ \A r \in 1..Len(container.storage.cells) :
                BitStorage_get_run(container.storage, r) < Len(container.palette.list)
        /\ \A i, j \in 1..Len(container.palette.list) :
                container.palette.list[i] = container.palette.list[j] => i = j
        /\ Len(container.palette.list) <= Pow2(container.bits_per_entry)

\* C22: from a container whose stored ids are valid, every call leaves the
\* stored ids valid and no step of the call, the copy of a resize included,
\* indexes outside the palette's list.
C22_StoredIdsStayValid ==
    [][(StoredIdsValid /\ pstatus = "ok") => (StoredIdsValid' /\ pstatus' # "panic")]_vars

\* the id the call just made got from id_for and wrote into storage
WrittenId == id_for(container, last'.value, {}).id

\* C23: the id a set or get_and_set call that returned wrote into storage
\* fits in the bits_per_entry bits of the container it left, also when the
\* palette is Global and the id is the value itself.
C23_WrittenIdFits ==
    [][(ops' = ops + 1 /\ pstatus' = "ok" /\ last'.op \in {"set", "get_and_set"})
            => WrittenId < Pow2(container'.bits_per_entry)]_vars

(***************************************************************************)
(* Properties of the two halves running side by side.                      *)
(***************************************************************************)
\* what a write half running alone from `writer` puts on the stream for the
\* packets written from the i-th on, one entry per write
RECURSIVE WriterAlone(_, _)
WriterAlone(writer, i) ==
    IF i > Len(sent) THEN <<>>
    ELSE Only({<<w.bytes>> \o WriterAlone(w.writer, i + 1) :
                w \in {WriteConnection_write(writer, sent[i].packet)}})

\* what the reads of a read half running alone from `reader` return, from the
\* i-th on, when `bytes` are on its socket at the first of them
RECURSIVE ReaderAlone(_, _, _)
ReaderAlone(reader, bytes, i) ==
    IF i > Len(received) THEN <<>>
    ELSE Only({<<[status |-> r.status, packet |-> r.packet]>>
                    \o ReaderAlone(r.reader, <<>>, i + 1) :
                r \in {ReadConnection_read(reader, bytes)}})

\* the halves as they were split
Writer0 == [conn.writer EXCEPT !.enc_cipher = FirstCipher]

Reader0 == [conn.reader EXCEPT !.buffer = <<>>, !.dec_cipher = FirstCipher]

\* C24: the last write left the read half as it was and the last read,
\* returned or dropped, left the write half as it was; the bytes not yet taken by the read half are,
\* in the order of the write calls, the rest of the frames written; and,
\* whatever the interleaving, the frames written are those the write half
\* alone writes for the same packets and the packets returned are those the
\* read half alone returns for the bytes it has taken.
C24_HalvesIndependent ==
    /\ prior.op = "write" => conn.reader = prior.conn.reader
    /\ prior.op \in {"read", "read_cancelled"} => conn.writer = prior.conn.writer
    /\ read_stream \o write_stream = Tail_from(WireFrom(1), Len(Consumed) + 1)
    /\ WriterAlone(Writer0, 1) = [i \in 1..Len(sent) |-> sent[i].bytes]
    /\ ReaderAlone(Reader0, Consumed, 1)
            = [i \in 1..Len(received) |->
                    [status |-> received[i].status, packet |-> received[i].packet]]

\* C24 witness: with a cipher installed, a packet was written after a read
\* had returned the first, its frame not yet taken by the read half
C24_Witness ==
    /\ conn.writer.enc_cipher # None
    /\ Len(sent) = 2
    /\ Len(received) = 1
    /\ prior.op = "write"
    /\ prior.conn.reader = conn.reader
    /\ received[1].packet = Some(sent[1].packet)

(***************************************************************************)
(* Properties of the configuration of the two halves.                      *)
(***************************************************************************)
\* C25: after any sequence of Connection operations the two halves have the
\* same compression threshold, both absent or both the same value, and the
\* read half has a decrypt cipher exactly when the write half has an encrypt
\* cipher, the two made from the same key.
C25_HalvesConfiguredAlike ==
    /\ conn.reader.compression_threshold = conn.writer.compression_threshold
    /\ (conn.reader.dec_cipher = None) = (conn.writer.enc_cipher = None)
    /\ conn.writer.enc_cipher # None =>
            conn.reader.dec_cipher[1].key = conn.writer.enc_cipher[1].key

\* C25 witness: in Game, with compression enabled and a key installed in
\* Login, a packet has been written and a read has returned, so that the two
\* ciphers, of one key, are in different states
C25_Witness ==
    /\ conn.state = "Game"
    /\ conn.writer.enc_cipher # None
    /\ conn.reader.dec_cipher # conn.writer.enc_cipher
    /\ conn.reader.compression_threshold = Some(MaxPayload)
    /\ Len(sent) > 0
    /\ Len(received) > 0

=============================================================================
